---- MODULE Spec2Model ----
(***************************************************************************)
(* The OrientDB connector of the graphdb module (graphdb-orient) as a      *)
(* state machine.  The repository holds three implementations of the       *)
(* connector contract:                                                     *)
(*   "index"     src/index.js           (orientdb binary client)           *)
(*   "part_001"  src/unnamed/part_001   (orientdb binary client, getNode)  *)
(*   "part_002"  src/unnamed/part_002   (orienteer client)                 *)
(* A behaviour runs one of them (variant) against one backend database.    *)
(* Every backend round trip is asynchronous: an operation sends a call,    *)
(* and a later step delivers the backend's answer to the registered        *)
(* callback.  Each such callback is one action.                            *)
(***************************************************************************)
EXTENDS Integers, Sequences, FiniteSets

\* ------------------------------------------------------------------ bounds
\* most operations the callers start in one behaviour
MaxOps == 3

\* ------------------------------------------------------- values and inputs
Variants == {"index", "part_001", "part_002"}

\* the JavaScript value undefined (a missing argument or field)
Undefined == "<undefined>"
NoErr == "<no error>"

BaseVertex == "OGraphVertex"
BaseEdge == "OGraphEdge"
NodeTypes == {"Person"}
EdgeTypes == {"Knows"}
UserClasses == NodeTypes \cup EdgeTypes
Ids == {"a", "b"}
\* the id an edge may carry in its data
EdgeIds == {"c"}
Names == {"Ann", "Bob"}
Fields == {"id", "name"}

\* node.data / entity.data: a mapping over some of the fields
DataValues ==
    UNION {[D -> Ids \cup EdgeIds \cup Names] : D \in SUBSET Fields}
\* data.id
IdOf(data) == IF "id" \in DOMAIN data THEN data["id"] ELSE Undefined

Datas ==
    {d \in DataValues :
        /\ ("id" \in DOMAIN d => d["id"] \in Ids \cup EdgeIds)
        /\ ("name" \in DOMAIN d => d["name"] \in Names)}
\* the payloads the callers save: nodes carry the id "a" and a name, edges
\* a name and possibly an id
NodeDatas == {d \in Datas : DOMAIN d = Fields /\ d["id"] = "a"}
EdgeDatas ==
    {d \in Datas : /\ "name" \in DOMAIN d
                   /\ IdOf(d) \in EdgeIds \cup {Undefined}
                   /\ IdOf(d) \in EdgeIds => d["name"] = "Ann"}
NoData == [f \in {} |-> Undefined]

\* source / target of an edge: nodes of the base vertex class
Endpoints == {[id |-> i, type |-> t] : i \in Ids, t \in {BaseVertex}}
NoEndpoint == [id |-> Undefined, type |-> Undefined]

\* connect options: the top-level keys that are present
OptKeys == {"server", "protocol", "db"}
\* the options the callers connect with: none, a connection target alone,
\* a connection target and the db entry
Options ==
    {opts \in SUBSET OptKeys :
        Cardinality(opts \cap {"server", "protocol"}) = 1 \/ opts = {}}

\* backend errors
BackendError == "backend error"
ClassExistsError == "class already exists"
ConflictError == "duplicate key on unique index"

VARIABLES
    variant,    \* which connector implementation runs
    callers,    \* the callers that may have an operation in flight
    graphDb,    \* graph._db (graph._connection in part_002): handle set?
    active,     \* definition.active of the caller's type definitions
    database,   \* backend: "missing", "closed" or "open"
    classes,    \* backend: user class -> "none", "class", "prop", "index"
    records,    \* backend: the vertex and edge records, in storage order
    calls,      \* per caller: the operation in flight and its position
    started     \* the number of operations started so far

vars ==
    <<variant, callers, graphDb, active, database, classes, records, calls,
      started>>
backend == <<database, classes, records>>

Callers == {1, 2}

\* ------------------------------------------------------------- errors, 4-6
errors_NOT_CONNECTED == "Unable to perform operation on disconnected db"
ServerRequired == "server connection details required to use orientdb connector"
ProtocolRequired == "server connection protocol required to use orientdb connector"
DbRequired == "db name, username and password require to use orientdb connector"
NodeRequired == "A node object is require for a save operation"
EntityRequired == "A valid entity is require for a save operation"
DbNotFound == "Could not find db"
\* an exception thrown inside a callback: the caller's callback never runs
Thrown == "TypeError thrown"

\* ------------------------------------------------------ templates, 11-23
\* <%= x %> prints '' for undefined
render(v) == IF v = Undefined THEN "" ELSE v

Stmt(k, type, id, sets, source, target) ==
    [k |-> k, type |-> render(type), id |-> render(id), sets |-> sets,
     source |-> [id |-> render(source.id), type |-> render(source.type)],
     target |-> [id |-> render(target.id), type |-> render(target.type)]]

\* a backend call that is not a command text
Call(k, type) == Stmt(k, type, Undefined, {}, NoEndpoint, NoEndpoint)

templates_selectById(type, id) ==
    Stmt("selectById", type, id, {}, NoEndpoint, NoEndpoint)
templates_selectEdge(type, source, target) ==
    Stmt("selectEdge", type, Undefined, {}, source, target)
templates_update(type, sqlsets, id) ==
    Stmt("update", type, id, sqlsets, NoEndpoint, NoEndpoint)
templates_vertexCreate(type, sqlsets) ==
    Stmt("vertexCreate", type, Undefined, sqlsets, NoEndpoint, NoEndpoint)
templates_edgeCreate(type, source, target, sqlsets) ==
    Stmt("edgeCreate", type, Undefined, sqlsets, source, target)

\* _.omit(data, keys)
omit(data, keys) == [f \in (DOMAIN data) \ keys |-> data[f]]

\* orientParser.hashToSQLSets(data).sqlsets / orienteer.objectTo('SET', data):
\* the field = value assignments of the set-clause
hashToSQLSets(data) == {<<f, data[f]>> : f \in DOMAIN data}

\* 'CREATE PROPERTY <class>.id STRING', 'CREATE INDEX <class>.id UNIQUE',
\* 'CREATE CLASS <class> EXTENDS <base>'
CreateProperty(className) == Call("createProperty", className)
CreateIndex(className) == Call("createIndex", className)
CreateClass(className, baseClass) ==
    Stmt("createClass", className, Undefined, {},
         [id |-> Undefined, type |-> baseClass], NoEndpoint)

\* ---------------------------------------------------------------- backend
\* The backend database is an external collaborator.  It answers every call
\* once; any call may fail (BackendError) without effect.  A command takes
\* effect only on a usable database.
NewRecord(class) ==
    [class |-> class, id |-> Undefined, name |-> Undefined,
     outV |-> Undefined, inV |-> Undefined]

BaseOf(class) ==
    IF class \in NodeTypes THEN BaseVertex
    ELSE IF class \in EdgeTypes THEN BaseEdge
    ELSE class

\* records of a subclass are records of its base class
IsA(class, type) == class = type \/ BaseOf(class) = type

ClassExists(type) ==
    \/ type \in {BaseVertex, BaseEdge}
    \/ type \in UserClasses /\ classes[type] # "none"

Usable ==
    \/ database = "open"
    \/ variant = "part_002" /\ database # "missing"

Outcome(err, results, db, cls, recs) ==
    [err |-> err, results |-> results, database |-> db, classes |-> cls,
     records |-> recs]
Fail(err) == Outcome(err, <<>>, database, classes, records)
Ok(results) == Outcome(NoErr, results, database, classes, records)

Matches(r, type, id) == IsA(r.class, type) /\ r.id = id
SelectFrom(recs, type, id) == SelectSeq(recs, LAMBDA r : Matches(r, type, id))

\* SELECT FROM <type> WHERE in.id = "<source.id>" AND out.id = "<target.id>"
\* (an edge's out is the vertex it leaves, its in the vertex it enters)
MatchesEdge(r, type, sourceId, targetId) ==
    IsA(r.class, type) /\ r.inV = sourceId /\ r.outV = targetId

ApplySets(r, sets) ==
    [f \in DOMAIN r |->
        IF \E p \in sets : p[1] = f
        THEN (CHOOSE p \in sets : p[1] = f)[2]
        ELSE r[f]]

\* the unique index <type>.id rejects a second record with the same id
Conflicts(recs, type, r) ==
    /\ type \in UserClasses
    /\ classes[type] = "index"
    /\ r.id # Undefined
    /\ \E i \in 1..Len(recs) : recs[i].class = type /\ recs[i].id = r.id

Duplicates(recs, type) ==
    \E i, j \in 1..Len(recs) :
        /\ i # j
        /\ recs[i].class = type /\ recs[j].class = type
        /\ recs[i].id = recs[j].id

Run(stmt) ==
    LET k == stmt.k
        type == stmt.type
    IN
    IF k = "selectById" THEN
        IF ClassExists(type) THEN {Ok(SelectFrom(records, type, stmt.id))}
        ELSE {}
    ELSE IF k = "selectEdge" THEN
        IF ClassExists(type)
        THEN {Ok(SelectSeq(records, LAMBDA r :
                    MatchesEdge(r, type, stmt.source.id, stmt.target.id)))}
        ELSE {}
    ELSE IF k = "update" THEN
        IF ClassExists(type) /\ stmt.sets # {}
        THEN {Outcome(NoErr, <<>>, database, classes,
                [i \in 1..Len(records) |->
                    IF Matches(records[i], type, stmt.id)
                    THEN ApplySets(records[i], stmt.sets)
                    ELSE records[i]])}
        ELSE {}
    ELSE IF k = "vertexCreate" THEN
        \* CREATE VERTEX without a class name creates a base vertex
        LET class == IF type = "" THEN BaseVertex ELSE type
            r == ApplySets(NewRecord(class), stmt.sets)
        IN
        IF ClassExists(class) /\ BaseOf(class) = BaseVertex
        THEN IF Conflicts(records, type, r) THEN {Fail(ConflictError)}
             ELSE {Outcome(NoErr, <<r>>, database, classes,
                           Append(records, r))}
        ELSE {}
    ELSE IF k = "edgeCreate" THEN
        LET r == [ApplySets(NewRecord(type), stmt.sets) EXCEPT
                    !.outV = stmt.source.id, !.inV = stmt.target.id]
        IN
        IF /\ ClassExists(type) /\ BaseOf(type) = BaseEdge
           /\ ClassExists(stmt.source.type) /\ ClassExists(stmt.target.type)
           /\ SelectFrom(records, stmt.source.type, stmt.source.id) # <<>>
           /\ SelectFrom(records, stmt.target.type, stmt.target.id) # <<>>
        THEN IF Conflicts(records, type, r) THEN {Fail(ConflictError)}
             ELSE {Outcome(NoErr, <<r>>, database, classes,
                           Append(records, r))}
        ELSE {}
    ELSE IF k = "createClass" THEN
        IF type \in UserClasses /\ stmt.source.type = BaseOf(type)
        THEN IF classes[type] = "none"
             THEN {Outcome(NoErr, <<>>, database,
                           [classes EXCEPT ![type] = "class"], records)}
             ELSE {Fail(ClassExistsError)}
        ELSE {}
    ELSE IF k = "createProperty" THEN
        IF type \in UserClasses /\ classes[type] = "class"
        THEN {Outcome(NoErr, <<>>, database,
                      [classes EXCEPT ![type] = "prop"], records)}
        ELSE {}
    ELSE IF k = "createIndex" THEN
        IF type \in UserClasses /\ classes[type] = "prop"
            /\ ~Duplicates(records, type)
        THEN {Outcome(NoErr, <<>>, database,
                      [classes EXCEPT ![type] = "index"], records)}
        ELSE {}
    ELSE {}

\* the answers the backend may give to a command or a class creation
Answers(stmt) == {Fail(BackendError)} \cup (IF Usable THEN Run(stmt) ELSE {})

\* the answers to the session calls
SessionAnswers(k) ==
    {Fail(BackendError)} \cup
    (IF k = "server.connect" THEN {Ok(<<>>)}
     ELSE IF k = "db.open" THEN
        IF database # "missing"
        THEN {Outcome(NoErr, <<>>, "open", classes, records)} ELSE {}
     ELSE IF k = "db.create" THEN
        IF database = "missing"
        THEN {Outcome(NoErr, <<>>, "closed", classes, records)} ELSE {}
     ELSE IF k = "db.close" THEN
        {Outcome(NoErr, <<>>,
                 IF database = "open" THEN "closed" ELSE database,
                 classes, records)}
     ELSE {})

Deliver(o) ==
    /\ database' = o.database
    /\ classes' = o.classes
    /\ records' = o.records

\* ------------------------------------------------------ calls in flight
NoArg ==
    [opts |-> {}, type |-> Undefined, hasData |-> FALSE, data |-> NoData,
     id |-> Undefined, source |-> NoEndpoint, target |-> NoEndpoint]

\* op: the public operation; pc: the backend call whose answer is awaited
\* ("idle" before any call, "done" once the caller's callback has run,
\* "thrown" if an exception escaped a callback); db: the handle captured in
\* the operation's local variable; sent: the backend calls issued so far;
\* got: the err argument of each answer received, in the order of sent;
\* rest: the commands a series has still to send; found: what the lookup
\* of a save delivered; err, val: the arguments of the caller's callback;
\* prev: the save the caller completed just before this operation, if any;
\* open: the commands of a parallel dispatch not yet answered (got then holds
\* the answers in the order of their arrival); cbs: how often the callback
\* of a parallel dispatch has been invoked
Idle ==
    [op |-> "idle", pc |-> "idle", arg |-> NoArg, db |-> FALSE,
     sent |-> <<>>, got |-> <<>>, rest |-> <<>>, found |-> <<>>,
     err |-> NoErr, val |-> <<>>, prev |-> <<>>, open |-> {}, cbs |-> 0]

\* what a caller remembers of the operation it has just completed: the
\* class (of a node, the class it was looked up under), the payload and
\* the endpoints of a successful save and the statement it wrote
Completed(call) ==
    IF call.op \in {"saveNode", "saveEdge"} /\ call.pc = "done"
        /\ call.err = NoErr /\ Len(call.sent) = 2
    THEN <<[op |-> call.op,
            type |-> IF call.op = "saveNode" THEN call.sent[1].type
                     ELSE call.arg.type,
            data |-> call.arg.data, k |-> call.sent[2].k,
            source |-> call.arg.source, target |-> call.arg.target]>>
    ELSE <<>>

Begin(c, op, arg) ==
    [Idle EXCEPT !.op = op, !.arg = arg, !.db = graphDb,
                 !.prev = Completed(calls[c])]
Finish(call, err, val) ==
    [call EXCEPT !.pc = "done", !.err = err, !.val = val]
Send(call, pc, stmt) ==
    [call EXCEPT !.pc = pc, !.sent = Append(@, stmt)]
Throw(call) == [call EXCEPT !.pc = "thrown", !.err = Thrown]

CanStart(c) ==
    /\ c \in callers
    /\ calls[c].pc \in {"idle", "done"}
    /\ started < MaxOps
    /\ started' = started + 1
At(c, op, pc) == calls[c].op = op /\ calls[c].pc = pc
Pending(c) == calls[c].sent[Len(calls[c].sent)]
\* the callback of the pending backend call is entered with answer o
Receive(call, o) == [call EXCEPT !.got = Append(@, o.err)]

\* the vertices an earlier session has left in the database
Stored ==
    <<[NewRecord(BaseVertex) EXCEPT !.id = "a", !.name = "Ann"],
      [NewRecord(BaseVertex) EXCEPT !.id = "b", !.name = "Bob"]>>

\* a new graph object without a handle; the database does not exist yet,
\* or it exists, empty or with the vertices of an earlier session
Init ==
    /\ variant \in Variants
    /\ callers = {1}
    /\ graphDb = FALSE
    /\ active = [t \in UserClasses |-> FALSE]
    /\ database \in {"missing", "closed"}
    /\ classes = [t \in UserClasses |-> "none"]
    /\ records \in IF database = "missing" THEN {<<>>} ELSE {<<>>, Stored}
    /\ calls = [c \in Callers |-> Idle]
    /\ started = 0

\* two callers share a graph on which one operation has been run: a connect
\* that was refused (the graph is as new, the database does not exist), or
\* a connect to a database in which an earlier session has activated the
\* node type (the class has its unique index)
InitShared ==
    /\ variant \in Variants
    /\ callers = Callers
    /\ active = [t \in UserClasses |-> FALSE]
    /\ records = <<>>
    /\ calls = [c \in Callers |-> Idle]
    /\ started = 1
    /\ \/ /\ graphDb = FALSE
          /\ database = "missing"
          /\ classes = [t \in UserClasses |-> "none"]
       \/ /\ graphDb = TRUE
          /\ database = "open"
          /\ classes = [t \in UserClasses |->
                          IF t \in NodeTypes THEN "index" ELSE "none"]

\* ------------------------------------------------------------ connect
\* connect without the check of opts.db
connect_noDbCheck(c, opts) ==
    /\ variant \in {"index", "part_001"}
    /\ CanStart(c)
    /\ LET call == Begin(c, "connect", [NoArg EXCEPT !.opts = opts]) IN
       calls' = [calls EXCEPT ![c] =
          IF "server" \notin opts THEN Finish(call, ServerRequired, <<>>)
          ELSE Send(call, "server.connect", Call("server.connect", Undefined))]
    /\ UNCHANGED <<variant, callers, graphDb, active, backend>>

\* exports.connect up to the server connect (index.js, part_001)
connect(c, opts) ==
    /\ variant \in {"index", "part_001"}
    /\ CanStart(c)
    /\ LET call == Begin(c, "connect", [NoArg EXCEPT !.opts = opts]) IN
       calls' = [calls EXCEPT ![c] =
          IF "server" \notin opts THEN Finish(call, ServerRequired, <<>>)
          ELSE IF "db" \notin opts THEN Finish(call, DbRequired, <<>>)
          ELSE Send(call, "server.connect", Call("server.connect", Undefined))]
    /\ UNCHANGED <<variant, callers, graphDb, active, backend>>

\* the server.connect callback of index.js
connect_onServer(c) ==
    /\ variant = "index"
    /\ At(c, "connect", "server.connect")
    /\ \E o \in SessionAnswers("server.connect") :
        /\ Deliver(o)
        /\ IF o.err # NoErr
           THEN /\ calls' = [calls EXCEPT ![c] = Finish(Receive(@, o), o.err, <<>>)]
                /\ UNCHANGED graphDb
           ELSE /\ graphDb' = TRUE
                /\ calls' = [calls EXCEPT ![c] =
                       Send(Receive(@, o), "db.open", Call("db.open", Undefined))]
    /\ UNCHANGED <<variant, callers, active, started>>

\* the server.connect callback of part_001: err is not looked at
connect_onServer_p1(c) ==
    /\ variant = "part_001"
    /\ At(c, "connect", "server.connect")
    /\ \E o \in SessionAnswers("server.connect") :
        /\ Deliver(o)
        /\ graphDb' = TRUE
        /\ calls' = [calls EXCEPT ![c] =
               Send(Receive(@, o), "db.open", Call("db.open", Undefined))]
    /\ UNCHANGED <<variant, callers, active, started>>

\* the db.open callback
connect_onOpen(c) ==
    /\ At(c, "connect", "db.open")
    /\ \E o \in SessionAnswers("db.open") :
        /\ Deliver(o)
        /\ calls' = [calls EXCEPT ![c] =
              IF o.err = NoErr THEN Finish(Receive(@, o), NoErr, <<>>)
              ELSE Send(Receive(@, o), "db.create", Call("db.create", Undefined))]
    /\ UNCHANGED <<variant, callers, graphDb, active, started>>

\* async.series([db.create, db.open], callback): after db.create
connect_onCreate(c) ==
    /\ At(c, "connect", "db.create")
    /\ \E o \in SessionAnswers("db.create") :
        /\ Deliver(o)
        /\ calls' = [calls EXCEPT ![c] =
              IF o.err # NoErr THEN Finish(Receive(@, o), o.err, <<>>)
              ELSE Send(Receive(@, o), "db.reopen", Call("db.open", Undefined))]
    /\ UNCHANGED <<variant, callers, graphDb, active, started>>

\* connect_onReopen that opens once more when the second open failed
connect_onReopen_retry(c) ==
    /\ At(c, "connect", "db.reopen")
    /\ \E o \in SessionAnswers("db.open") :
        /\ Deliver(o)
        /\ calls' = [calls EXCEPT ![c] =
              IF o.err # NoErr /\ Len(@.sent) < 5
              THEN Send(Receive(@, o), "db.reopen", Call("db.open", Undefined))
              ELSE Finish(Receive(@, o), o.err, <<>>)]
    /\ UNCHANGED <<variant, callers, graphDb, active, started>>

\* async.series([db.create, db.open], callback): after the second db.open
connect_onReopen(c) ==
    /\ At(c, "connect", "db.reopen")
    /\ \E o \in SessionAnswers("db.open") :
        /\ Deliver(o)
        /\ calls' = [calls EXCEPT ![c] = Finish(Receive(@, o), o.err, <<>>)]
    /\ UNCHANGED <<variant, callers, graphDb, active, started>>

\* exports.connect of part_002 up to the existence check
connect_p2(c, opts) ==
    /\ variant = "part_002"
    /\ CanStart(c)
    /\ LET call == Begin(c, "connect", [NoArg EXCEPT !.opts = opts]) IN
       calls' = [calls EXCEPT ![c] =
          IF "protocol" \notin opts THEN Finish(call, ProtocolRequired, <<>>)
          ELSE IF "db" \notin opts THEN Finish(call, DbRequired, <<>>)
          ELSE Send(call, "dbExist", Call("dbExist", Undefined))]
    /\ UNCHANGED <<variant, callers, graphDb, active, backend>>

\* the connection.dbExist callback of part_002
connect_onDbExist_p2(c) ==
    /\ variant = "part_002"
    /\ At(c, "connect", "dbExist")
    /\ \E o \in {Fail(BackendError), Ok(<<>>)} :
        LET exists == database # "missing" IN
        /\ Deliver(o)
        /\ IF o.err # NoErr \/ ~exists
           THEN /\ calls' = [calls EXCEPT ![c] =
                      Finish(Receive(@, o), IF o.err # NoErr THEN o.err ELSE DbNotFound,
                             <<>>)]
                /\ UNCHANGED graphDb
           ELSE /\ graphDb' = TRUE
                /\ calls' = [calls EXCEPT ![c] = Finish(Receive(@, o), NoErr, <<>>)]
    /\ UNCHANGED <<variant, callers, active, started>>

\* -------------------------------------------------------------- close
\* exports.close (index.js, part_001)
close(c) ==
    /\ variant \in {"index", "part_001"}
    /\ CanStart(c)
    /\ LET call == Begin(c, "close", NoArg) IN
       calls' = [calls EXCEPT ![c] =
          IF ~graphDb THEN Finish(call, NoErr, <<>>)
          ELSE Send(call, "db.close", Call("db.close", Undefined))]
    /\ UNCHANGED <<variant, callers, graphDb, active, backend>>

\* close_onClose that marks every definition inactive again
close_onClose_resetActive(c) ==
    /\ At(c, "close", "db.close")
    /\ \E o \in SessionAnswers("db.close") :
        /\ Deliver(o)
        /\ graphDb' = FALSE
        /\ active' = [t \in UserClasses |-> FALSE]
        /\ calls' = [calls EXCEPT ![c] = Finish(Receive(@, o), o.err, <<>>)]
    /\ UNCHANGED <<variant, callers, started>>

\* the graph._db.close callback
close_onClose(c) ==
    /\ At(c, "close", "db.close")
    /\ \E o \in SessionAnswers("db.close") :
        /\ Deliver(o)
        /\ graphDb' = FALSE
        /\ calls' = [calls EXCEPT ![c] = Finish(Receive(@, o), o.err, <<>>)]
    /\ UNCHANGED <<variant, callers, active, started>>

\* exports.close of part_002: nothing is sent to the backend
close_p2(c) ==
    /\ variant = "part_002"
    /\ CanStart(c)
    /\ graphDb' = FALSE
    /\ calls' = [calls EXCEPT ![c] = Finish(Begin(c, "close", NoArg), NoErr, <<>>)]
    /\ UNCHANGED <<variant, callers, active, backend>>

\* ------------------------------------------------------ command dispatch
\* sendCommand whose callback reports success whatever the answer
sendCommand_onReply_noErr(c) ==
    /\ calls[c].pc \in {"find.byType", "find.edge", "write"}
    /\ \E o \in Answers(Pending(c)) :
        /\ Deliver(o)
        /\ calls' = [calls EXCEPT ![c] = Finish(Receive(@, o), NoErr, o.results)]
    /\ UNCHANGED <<variant, callers, graphDb, active, started>>

\* sendCommand(db, command, callback) with the caller's callback: the
\* answer is passed through unchanged
sendCommand_onReply(c) ==
    /\ calls[c].pc \in {"find.byType", "find.edge", "write"}
    /\ \E o \in Answers(Pending(c)) :
        /\ Deliver(o)
        /\ calls' = [calls EXCEPT ![c] = Finish(Receive(@, o), o.err, o.results)]
    /\ UNCHANGED <<variant, callers, graphDb, active, started>>

\* commands.series(commands, targetDb, callback): send the first command;
\* async.series of an empty list calls back at once
commands_series(call, commands) ==
    IF commands = <<>> THEN Finish(call, NoErr, <<>>)
    ELSE [Send(call, "series", Head(commands)) EXCEPT !.rest = Tail(commands)]

\* async.series that goes on with the next command after a failed one
commands_series_onReply_goOn(c) ==
    /\ calls[c].pc = "series"
    /\ \E o \in Answers(Pending(c)) :
        /\ Deliver(o)
        /\ calls' = [calls EXCEPT ![c] =
              IF o.err # NoErr /\ @.rest = <<>>
              THEN Finish(Receive(@, o), o.err, <<>>)
              ELSE commands_series(Receive(@, o), @.rest)]
    /\ UNCHANGED <<variant, callers, graphDb, active, started>>

\* async.series: a command of the series has been answered
commands_series_onReply(c) ==
    /\ calls[c].pc = "series"
    /\ \E o \in Answers(Pending(c)) :
        /\ Deliver(o)
        /\ calls' = [calls EXCEPT ![c] =
              IF o.err # NoErr THEN Finish(Receive(@, o), o.err, <<>>)
              ELSE commands_series(Receive(@, o), @.rest)]
    /\ UNCHANGED <<variant, callers, graphDb, active, started>>

\* commands.parallel(commands, targetDb, callback): every command is sent at
\* once; async.parallel of an empty list calls back at once
commands_parallel(c, commands) ==
    /\ CanStart(c)
    /\ graphDb
    /\ LET call == Begin(c, "parallel", NoArg) IN
       calls' = [calls EXCEPT ![c] =
          IF commands = <<>> THEN [Finish(call, NoErr, <<>>) EXCEPT !.cbs = 1]
          ELSE [call EXCEPT !.pc = "parallel", !.sent = commands,
                            !.open = 1..Len(commands)]]
    /\ UNCHANGED <<variant, callers, graphDb, active, backend>>

\* the callback after one answer of a parallel dispatch
parallelCallback(call, err, invoke) ==
    [call EXCEPT !.pc = IF call.open = {} THEN "done" ELSE "parallel",
                 !.err = IF invoke THEN err ELSE @,
                 !.cbs = IF invoke THEN @ + 1 ELSE @]

\* async.parallel that calls back at every failed command and at the end
commands_parallel_onReply_each(c) ==
    /\ calls[c].pc = "parallel"
    /\ \E i \in calls[c].open : \E o \in Answers(calls[c].sent[i]) :
        /\ Deliver(o)
        /\ calls' = [calls EXCEPT ![c] =
              LET call == [Receive(@, o) EXCEPT !.open = @ \ {i}] IN
              parallelCallback(call, o.err,
                               o.err # NoErr \/ call.open = {})]
    /\ UNCHANGED <<variant, callers, graphDb, active, started>>

\* async.parallel: one of the commands has been answered; the callback is
\* invoked at the first error, or when the last command has succeeded, and
\* never again afterwards
commands_parallel_onReply(c) ==
    /\ calls[c].pc = "parallel"
    /\ \E i \in calls[c].open : \E o \in Answers(calls[c].sent[i]) :
        /\ Deliver(o)
        /\ calls' = [calls EXCEPT ![c] =
              LET call == [Receive(@, o) EXCEPT !.open = @ \ {i}] IN
              parallelCallback(call, o.err,
                               call.cbs = 0
                                   /\ (o.err # NoErr \/ call.open = {}))]
    /\ UNCHANGED <<variant, callers, graphDb, active, started>>

\* --------------------------------------------------------- activateType
\* activateType(graph, definition, baseClass, callback) of index.js and
\* part_001, up to db.createClass
activateType(c, op, definition, baseClass) ==
    /\ variant \in {"index", "part_001"}
    /\ CanStart(c)
    /\ LET call == Begin(c, op, [NoArg EXCEPT !.type = definition]) IN
       calls' = [calls EXCEPT ![c] =
          IF ~graphDb THEN Finish(call, errors_NOT_CONNECTED, <<>>)
          ELSE Send(call, "createClass", CreateClass(definition, baseClass))]
    /\ UNCHANGED <<variant, callers, graphDb, active, backend>>

\* the db.createClass callback with the two commands in the other order
activateType_onCreateClass_swapped(c) ==
    /\ calls[c].pc = "createClass"
    /\ \E o \in Answers(Pending(c)) :
        LET className == calls[c].arg.type IN
        /\ Deliver(o)
        /\ IF o.err # NoErr
           THEN /\ active' = [active EXCEPT ![className] = TRUE]
                /\ calls' = [calls EXCEPT ![c] = Finish(Receive(@, o), NoErr, <<>>)]
           ELSE /\ UNCHANGED active
                /\ calls' = [calls EXCEPT ![c] =
                      commands_series(Receive(@, o), <<CreateIndex(className),
                                           CreateProperty(className)>>)]
    /\ UNCHANGED <<variant, callers, graphDb, started>>

\* the db.createClass callback
activateType_onCreateClass(c) ==
    /\ calls[c].pc = "createClass"
    /\ \E o \in Answers(Pending(c)) :
        LET className == calls[c].arg.type IN
        /\ Deliver(o)
        /\ IF o.err # NoErr
           THEN /\ active' = [active EXCEPT ![className] = TRUE]
                /\ calls' = [calls EXCEPT ![c] = Finish(Receive(@, o), NoErr, <<>>)]
           ELSE /\ UNCHANGED active
                /\ calls' = [calls EXCEPT ![c] =
                      commands_series(Receive(@, o), <<CreateProperty(className),
                                           CreateIndex(className)>>)]
    /\ UNCHANGED <<variant, callers, graphDb, started>>

\* activateType of part_002: the three commands as one series
activateType_p2(c, op, definition, baseClass) ==
    /\ variant = "part_002"
    /\ CanStart(c)
    /\ LET call == Begin(c, op, [NoArg EXCEPT !.type = definition]) IN
       calls' = [calls EXCEPT ![c] =
          IF ~graphDb THEN Finish(call, errors_NOT_CONNECTED, <<>>)
          ELSE commands_series(call, <<CreateClass(definition, baseClass),
                                       CreateProperty(definition),
                                       CreateIndex(definition)>>)]
    /\ UNCHANGED <<variant, callers, graphDb, active, backend>>

activateNodeType(c, definition) ==
    \/ activateType(c, "activateNodeType", definition, BaseVertex)
    \/ activateType_p2(c, "activateNodeType", definition, BaseVertex)

activateEdgeType(c, definition) ==
    \/ activateType(c, "activateEdgeType", definition, BaseEdge)
    \/ activateType_p2(c, "activateEdgeType", definition, BaseEdge)

\* ----------------------------------------------------------------- find
\* findById(graph, id, className, callback) when callback is the caller's
findById(call, id, className, pc) ==
    IF ~graphDb THEN Finish(call, errors_NOT_CONNECTED, <<>>)
    ELSE Send(call, pc, templates_selectById(className, id))

\* exports.find (index.js, part_002)
find(c, searchParams) ==
    /\ variant \in {"index", "part_002"}
    /\ CanStart(c)
    /\ LET call == Begin(c, "find", [NoArg EXCEPT !.id = searchParams.id,
                                               !.type = searchParams.type])
       IN
       calls' = [calls EXCEPT ![c] =
          IF searchParams.id # Undefined /\ searchParams.type # Undefined
          THEN findById(call, searchParams.id, searchParams.type,
                        "find.byType")
          ELSE IF searchParams.id # Undefined
          THEN findById(call, searchParams.id, BaseVertex, "find.vertex")
          ELSE Finish(call, NoErr, <<>>)]
    /\ UNCHANGED <<variant, callers, graphDb, active, backend>>

\* find_onVertex that probes the edge class whatever the vertex probe gave
find_onVertex_always(c) ==
    /\ calls[c].pc = "find.vertex"
    /\ \E o \in Answers(Pending(c)) :
        /\ Deliver(o)
        /\ calls' = [calls EXCEPT ![c] =
              IF o.err # NoErr
              THEN Finish(Receive(@, o), o.err, o.results)
              ELSE findById(Receive(@, o), @.arg.id, BaseEdge, "find.edge")]
    /\ UNCHANGED <<variant, callers, graphDb, active, started>>

\* the callback of the vertex probe of find
find_onVertex(c) ==
    /\ calls[c].pc = "find.vertex"
    /\ \E o \in Answers(Pending(c)) :
        /\ Deliver(o)
        /\ calls' = [calls EXCEPT ![c] =
              IF o.err # NoErr \/ Len(o.results) > 0
              THEN Finish(Receive(@, o), o.err, o.results)
              ELSE findById(Receive(@, o), @.arg.id, BaseEdge, "find.edge")]
    /\ UNCHANGED <<variant, callers, graphDb, active, started>>

\* ------------------------------------------------------ getNode, getEdge
\* (results || [])[0]
First(results) == IF results = <<>> THEN <<>> ELSE <<results[1]>>

\* exports.getNode -> getById (part_001)
getNode(c, id, nodeType) ==
    /\ variant = "part_001"
    /\ CanStart(c)
    /\ LET call == Begin(c, "getNode", [NoArg EXCEPT !.id = id, !.type = nodeType])
           className == IF nodeType = Undefined THEN BaseVertex ELSE nodeType
       IN
       calls' = [calls EXCEPT ![c] =
          IF ~graphDb THEN Finish(call, errors_NOT_CONNECTED, <<>>)
          ELSE Send(call, "getById", templates_selectById(className, id))]
    /\ UNCHANGED <<variant, callers, graphDb, active, backend>>

\* edgeType || 'OGraphEdge' (index.js, part_002); part_001 passes edgeType
\* on as it is
EdgeTypeOf(edgeType) ==
    IF variant # "part_001" /\ edgeType = Undefined THEN BaseEdge
    ELSE edgeType

\* exports.getEdge
getEdge(c, source, target, edgeType) ==
    /\ CanStart(c)
    /\ LET call == Begin(c, "getEdge", [NoArg EXCEPT !.source = source,
                             !.target = target, !.type = edgeType])
       IN
       calls' = [calls EXCEPT ![c] =
          IF ~graphDb THEN Finish(call, errors_NOT_CONNECTED, <<>>)
          ELSE Send(call, "getOne",
                    templates_selectEdge(EdgeTypeOf(edgeType), source, target))]
    /\ UNCHANGED <<variant, callers, graphDb, active, backend>>

\* getOne_onReply that drops the handle when the command failed
getOne_onReply_dropHandle(c) ==
    /\ calls[c].pc \in {"getById", "getOne"}
    /\ \E o \in Answers(Pending(c)) :
        /\ Deliver(o)
        /\ graphDb' = (graphDb /\ o.err = NoErr)
        /\ calls' = [calls EXCEPT ![c] = Finish(Receive(@, o), o.err, First(o.results))]
    /\ UNCHANGED <<variant, callers, active, started>>

\* the command callback of getById and getEdge: the first record, if any
getOne_onReply(c) ==
    /\ calls[c].pc \in {"getById", "getOne"}
    /\ \E o \in Answers(Pending(c)) :
        /\ Deliver(o)
        /\ calls' = [calls EXCEPT ![c] = Finish(Receive(@, o), o.err, First(o.results))]
    /\ UNCHANGED <<variant, callers, graphDb, active, started>>

\* ------------------------------------------------------ saveNode, saveEdge
\* nodeCommand that keeps the id in the set-clause of an update
nodeCommand_keepId(type, data, existing) ==
    IF existing # <<>>
    THEN templates_update(type, hashToSQLSets(omit(data, {})),
                          existing[1].id)
    ELSE templates_vertexCreate(type, hashToSQLSets(omit(data, {})))

\* nodeCommand that leaves the id out of a create as well
nodeCommand_dropId(type, data, existing) ==
    IF existing # <<>>
    THEN templates_update(type, hashToSQLSets(omit(data, {"id"})),
                          existing[1].id)
    ELSE templates_vertexCreate(type, hashToSQLSets(omit(data, {"id"})))

\* the statement of a save: an update of the found record without the id
\* in its set-clause, or a create with every field
nodeCommand(type, data, existing) ==
    IF existing # <<>>
    THEN templates_update(type, hashToSQLSets(omit(data, {"id"})),
                          existing[1].id)
    ELSE templates_vertexCreate(type, hashToSQLSets(omit(data, {})))

\* edgeCommand that takes the branch from the id in the data
edgeCommand_byDataId(type, source, target, data, existing) ==
    IF "id" \in DOMAIN data
    THEN templates_update(type, hashToSQLSets(omit(data, {"id"})),
                          IdOf(data))
    ELSE templates_edgeCreate(type, source, target,
                              hashToSQLSets(omit(data, {})))

\* the statement of an edge save: an update of the found edge, or a create
\* from source to target
edgeCommand(type, source, target, data, existing) ==
    IF existing # <<>>
    THEN templates_update(type, hashToSQLSets(omit(data, {"id"})),
                          existing[1].id)
    ELSE templates_edgeCreate(type, source, target,
                              hashToSQLSets(omit(data, {})))

\* the write of a save: index.js and part_001 send it on the handle taken
\* at the start of the operation, part_002 reads graph._connection again
sendWrite(call, existing, commandText) ==
    IF variant = "part_002" /\ ~graphDb THEN Throw(call)
    ELSE [Send(call, "write", commandText) EXCEPT !.found = existing]

\* exports.saveNode up to the lookup (index.js, part_002)
saveNode(c, node) ==
    /\ variant \in {"index", "part_002"}
    /\ CanStart(c)
    /\ LET type == IF node.type = Undefined THEN BaseVertex ELSE node.type
           call == Begin(c, "saveNode", [NoArg EXCEPT !.hasData = node.hasData,
                                          !.data = node.data])
       IN
       calls' = [calls EXCEPT ![c] =
          IF ~graphDb THEN Finish(call, errors_NOT_CONNECTED, <<>>)
          ELSE IF ~node.hasData THEN Finish(call, NodeRequired, <<>>)
          ELSE Send([call EXCEPT !.arg.type = type], "saveNode.lookup",
                    templates_selectById(type, IdOf(node.data)))]
    /\ UNCHANGED <<variant, callers, graphDb, active, backend>>

\* the lookup callback of saveNode in index.js: results.length is read
\* before err is looked at
saveNode_onLookup(c) ==
    /\ variant = "index"
    /\ calls[c].pc = "saveNode.lookup"
    /\ \E o \in Answers(Pending(c)) :
        /\ Deliver(o)
        /\ calls' = [calls EXCEPT ![c] =
              IF o.err # NoErr THEN Throw(Receive(@, o))
              ELSE sendWrite(Receive(@, o), o.results,
                             nodeCommand(@.arg.type, @.arg.data, o.results))]
    /\ UNCHANGED <<variant, callers, graphDb, active, started>>

\* the lookup callback of saveNode in part_002
saveNode_onLookup_p2(c) ==
    /\ variant = "part_002"
    /\ calls[c].pc = "saveNode.lookup"
    /\ \E o \in Answers(Pending(c)) :
        /\ Deliver(o)
        /\ calls' = [calls EXCEPT ![c] =
              IF o.err # NoErr THEN Finish(Receive(@, o), o.err, <<>>)
              ELSE sendWrite(Receive(@, o), o.results,
                             nodeCommand(@.arg.type, @.arg.data, o.results))]
    /\ UNCHANGED <<variant, callers, graphDb, active, started>>

\* exports.saveNode of part_001 up to the lookup: node.type gets no default,
\* the lookup (getNode) falls back to the base vertex class
saveNode_p1(c, node) ==
    /\ variant = "part_001"
    /\ CanStart(c)
    /\ LET className == IF node.type = Undefined THEN BaseVertex
                        ELSE node.type
           call == Begin(c, "saveNode", [NoArg EXCEPT !.hasData = node.hasData,
                                  !.data = node.data, !.type = node.type])
       IN
       calls' = [calls EXCEPT ![c] =
          IF ~graphDb THEN Finish(call, errors_NOT_CONNECTED, <<>>)
          ELSE IF ~node.hasData THEN Finish(call, NodeRequired, <<>>)
          ELSE Send(call, "saveNode.lookup",
                    templates_selectById(className, IdOf(node.data)))]
    /\ UNCHANGED <<variant, callers, graphDb, active, backend>>

\* the getNode callback of saveNode in part_001
saveNode_onLookup_p1(c) ==
    /\ variant = "part_001"
    /\ calls[c].pc = "saveNode.lookup"
    /\ \E o \in Answers(Pending(c)) :
        /\ Deliver(o)
        /\ calls' = [calls EXCEPT ![c] =
              IF o.err # NoErr THEN Finish(Receive(@, o), o.err, <<>>)
              ELSE sendWrite(Receive(@, o), First(o.results),
                      nodeCommand(@.arg.type, @.arg.data, First(o.results)))]
    /\ UNCHANGED <<variant, callers, graphDb, active, started>>

\* exports.saveEdge up to the lookup (exports.getEdge)
saveEdge(c, source, target, entity) ==
    /\ CanStart(c)
    /\ LET call == Begin(c, "saveEdge", [NoArg EXCEPT !.source = source,
                        !.target = target, !.type = entity.type,
                        !.hasData = entity.hasData, !.data = entity.data])
       IN
       calls' = [calls EXCEPT ![c] =
          IF ~graphDb THEN Finish(call, errors_NOT_CONNECTED, <<>>)
          ELSE IF ~entity.hasData THEN Finish(call, EntityRequired, <<>>)
          ELSE Send(call, "saveEdge.lookup",
                    templates_selectEdge(EdgeTypeOf(entity.type),
                                         source, target))]
    /\ UNCHANGED <<variant, callers, graphDb, active, backend>>

\* the getEdge callback of saveEdge
saveEdge_onLookup(c) ==
    /\ calls[c].pc = "saveEdge.lookup"
    /\ \E o \in Answers(Pending(c)) :
        /\ Deliver(o)
        /\ calls' = [calls EXCEPT ![c] =
              IF o.err # NoErr THEN Finish(Receive(@, o), o.err, <<>>)
              ELSE sendWrite(Receive(@, o), First(o.results),
                      edgeCommand(EdgeTypeOf(@.arg.type), @.arg.source,
                                  @.arg.target, @.arg.data,
                                  First(o.results)))]
    /\ UNCHANGED <<variant, callers, graphDb, active, started>>

\* ------------------------------------------------------------ the system
\* the type arguments of the node operations
TypeArgs == NodeTypes \cup {BaseVertex, Undefined}
Nodes ==
    {[type |-> t, hasData |-> TRUE, data |-> d] :
        t \in TypeArgs, d \in NodeDatas}
    \cup {[type |-> t, hasData |-> FALSE, data |-> NoData] :
        t \in {Undefined}}
\* edges of the base edge class with any payload, of a user class with one
Entities ==
    {[type |-> t, hasData |-> TRUE, data |-> d] :
        t \in {Undefined}, d \in EdgeDatas}
    \cup {[type |-> t, hasData |-> TRUE, data |-> d] :
        t \in EdgeTypes, d \in {d \in EdgeDatas : DOMAIN d = {"name"}
                                                   /\ d["name"] = "Ann"}}
    \cup {[type |-> t, hasData |-> FALSE, data |-> NoData] :
        t \in {Undefined}}
\* the (source, target) pairs the callers link
Links == {p \in Endpoints \X Endpoints : p[1].id # p[2].id}
\* the command lists handed to commands.parallel: independent statements
ParallelLists ==
    {<<templates_selectById(BaseVertex, "a"),
       templates_selectById(BaseEdge, "c")>>}
SearchParams ==
    [id : {"a"} \cup EdgeIds \cup {Undefined}, type : {BaseVertex, Undefined}]

Next ==
    \E c \in Callers :
        \/ \E opts \in Options : connect(c, opts)
        \/ connect_onServer(c)
        \/ connect_onServer_p1(c)
        \/ connect_onOpen(c)
        \/ connect_onCreate(c)
        \/ connect_onReopen(c)
        \/ \E opts \in Options : connect_p2(c, opts)
        \/ connect_onDbExist_p2(c)
        \/ close(c)
        \/ close_onClose(c)
        \/ close_p2(c)
        \/ \E t \in NodeTypes : activateNodeType(c, t)
        \/ \E t \in EdgeTypes : activateEdgeType(c, t)
        \/ activateType_onCreateClass(c)
        \/ commands_series_onReply(c)
        \/ \E l \in ParallelLists : commands_parallel(c, l)
        \/ commands_parallel_onReply(c)
        \/ \E sp \in SearchParams : find(c, sp)
        \/ find_onVertex(c)
        \/ sendCommand_onReply(c)
        \/ \E i \in {"a"}, t \in TypeArgs : getNode(c, i, t)
        \/ \E l \in Links, e \in EdgeTypes \cup {Undefined} :
                getEdge(c, l[1], l[2], e)
        \/ getOne_onReply(c)
        \/ \E n \in Nodes : saveNode(c, n)
        \/ saveNode_onLookup(c)
        \/ saveNode_onLookup_p2(c)
        \/ \E n \in Nodes : saveNode_p1(c, n)
        \/ saveNode_onLookup_p1(c)
        \/ \E l \in Links, e \in Entities : saveEdge(c, l[1], l[2], e)
        \/ saveEdge_onLookup(c)

Spec == Init /\ [][Next]_vars

\* two callers whose operations interleave on one graph
SpecShared == InitShared /\ [][Next]_vars

\* ================================================================ claims
DataOps ==
    {"find", "getNode", "getEdge", "saveNode", "saveEdge",
     "activateNodeType", "activateEdgeType"}
Activations == {"activateNodeType", "activateEdgeType"}
ConfigErrors == {ServerRequired, ProtocolRequired, DbRequired}
Done(c) == calls[c].pc = "done"
Kinds(sent) == [i \in 1..Len(sent) |-> sent[i].k]

\* C1: every data operation invoked while the graph holds no connection
\* handle completes with the not-connected error and sends nothing to the
\* backend, whatever its arguments.  (Fails: find without an id.)
C1_NotConnected ==
    \A c \in Callers :
        (calls[c].op \in DataOps /\ ~calls[c].db)
            => /\ Done(c)
               /\ calls[c].err = errors_NOT_CONNECTED
               /\ calls[c].sent = <<>>

\* C2 as stated: connect with options lacking the server entry or the db
\* entry reports a configuration error, makes no backend call and sets no
\* handle.  (Fails: part_002 reads opts.protocol, not opts.server.)
C2_Original ==
    \A c \in Callers :
        (calls[c].op = "connect"
            /\ ("server" \notin calls[c].arg.opts
                    \/ "db" \notin calls[c].arg.opts))
            => /\ Done(c)
               /\ calls[c].err \in ConfigErrors
               /\ calls[c].sent = <<>>
               /\ graphDb = calls[c].db

\* the options entry that names the connection target
TargetKey == IF variant = "part_002" THEN "protocol" ELSE "server"

\* C2 amended: connect with options lacking the connection-target entry its
\* connector reads (server, or protocol in part_002) or lacking the db
\* entry reports a configuration error, makes no backend call and leaves
\* the handle as it was (unset on a graph that had none).
C2_ConfigError ==
    \A c \in Callers :
        (calls[c].op = "connect"
            /\ (TargetKey \notin calls[c].arg.opts
                    \/ "db" \notin calls[c].arg.opts))
            => /\ Done(c)
               /\ calls[c].err \in ConfigErrors
               /\ calls[c].sent = <<>>
               /\ graphDb = calls[c].db

C2_Witness ==
    \E c \in Callers :
        /\ calls[c].op = "connect" /\ Done(c)
        /\ calls[c].arg.opts = {TargetKey}
        /\ calls[c].err = DbRequired
        /\ ~graphDb

\* C3: when connect on a graph without a handle reports a connection error
\* (not a configuration error), the graph holds no handle afterwards.
\* (Fails: graph._db is assigned before db.open and kept when open and
\* create fail.)
C3_FailedConnectNoHandle ==
    \A c \in Callers :
        (calls[c].op = "connect" /\ Done(c) /\ ~calls[c].db
            /\ calls[c].sent # <<>> /\ calls[c].err # NoErr)
            => ~graphDb

\* C4: in connect, a failed server connect is reported and followed by
\* neither open nor create; create is sent only after an open that failed,
\* the second open only after a create that succeeded.  (Fails: part_001
\* does not look at the error of server.connect.)
C4_FallbackOnlyAfterOpenFailed ==
    \A c \in Callers :
        calls[c].op = "connect" =>
            LET sent == calls[c].sent
                got == calls[c].got
            IN
            /\ (Len(got) >= 1 /\ got[1] # NoErr)
                    => /\ Len(sent) = 1
                       /\ Done(c)
                       /\ calls[c].err = got[1]
            /\ \A i \in 1..Len(sent) :
                /\ sent[i].k = "db.create"
                    => /\ i > 1
                       /\ sent[i - 1].k = "db.open"
                       /\ got[i - 1] # NoErr
                /\ (sent[i].k = "db.open" /\ i > 2)
                    => /\ sent[i - 1].k = "db.create"
                       /\ got[i - 1] = NoErr

\* C5: close on a graph without a handle succeeds without a backend call;
\* on a connected graph it sends exactly one backend close and the handle
\* is cleared when the callback runs, whatever the close reported.
\* (Fails: part_002 sends no close to the backend.)
C5_CloseIdempotent ==
    \A c \in Callers :
        (calls[c].op = "close" /\ Done(c)) =>
            IF calls[c].db
            THEN /\ Kinds(calls[c].sent) = <<"db.close">>
                 /\ ~graphDb
            ELSE /\ calls[c].sent = <<>>
                 /\ calls[c].err = NoErr
                 /\ ~graphDb

\* C6: an activation on a connected graph whose class creation is answered
\* with class-already-exists (the second of two activations of one
\* definition) succeeds, leaves definition.active true and sends neither
\* CREATE PROPERTY nor CREATE INDEX.  (Fails: part_002 passes the error of
\* CREATE CLASS to the caller and never sets active.)
C6_ActivationIdempotent ==
    \A c \in Callers :
        (calls[c].op \in Activations /\ Done(c)
            /\ Len(calls[c].got) >= 1
            /\ calls[c].got[1] = ClassExistsError)
            => /\ calls[c].err = NoErr
               /\ active[calls[c].arg.type]
               /\ Len(calls[c].sent) = 1

\* C7: an activation whose class creation fails for another reason than
\* class-already-exists reports that error, and a definition whose class
\* does not exist is not marked active.  (Fails: index.js treats every
\* error of db.createClass as class-already-exists.)
C7_OnlyClassExistsAbsorbed ==
    \A c \in Callers :
        (calls[c].op \in Activations /\ Done(c)
            /\ Len(calls[c].got) >= 1
            /\ calls[c].got[1] = BackendError)
            => /\ calls[c].err = BackendError
               /\ (classes[calls[c].arg.type] = "none"
                        => ~active[calls[c].arg.type])

\* C8: when an activation on a connected graph completes with success,
\* definition.active is true.  (Fails: the path that creates the class,
\* the property and the index never assigns active.)
C8_SuccessMeansActive ==
    \A c \in Callers :
        (calls[c].op \in Activations /\ Done(c) /\ calls[c].err = NoErr)
            => active[calls[c].arg.type]

\* the class a by-id lookup for a node of this type is made under
LookupClass(type) == IF type = Undefined THEN BaseVertex ELSE type
Assignments(data, keys) == {<<f, data[f]>> : f \in keys}
SameKey(prev, class, id) ==
    /\ prev # <<>>
    /\ prev[1].op = "saveNode"
    /\ prev[1].type = class
    /\ IdOf(prev[1].data) = id

\* C9: saveNode on a connected graph sends one select-by-id lookup for
\* (node.type, node.data.id) and at most one write, the write only after
\* the lookup has been answered without error: a CREATE VERTEX with every
\* field of node.data (id included) if the lookup found nothing, which is
\* the case exactly if the database holds no such record; otherwise an
\* UPDATE whose WHERE id is the found record's id and whose set-clause has
\* every field but id.  A save that follows a successful save of the same
\* (type, id) sends an UPDATE.
C9_CreateOrUpdate ==
    \A c \in Callers :
        calls[c].op = "saveNode" =>
            LET call == calls[c]
                sent == call.sent
                data == call.arg.data
                class == LookupClass(call.arg.type)
            IN
            /\ Len(sent) <= 2
            /\ Len(sent) >= 1
                => /\ call.db
                   /\ sent[1].k = "selectById"
                   /\ sent[1].type = class
                   /\ sent[1].id = IdOf(data)
            /\ call.pc = "write"
                => (call.found = <<>>
                        <=> SelectFrom(records, class, IdOf(data)) = <<>>)
            /\ Len(sent) = 2
                => /\ Len(call.got) >= 1
                   /\ call.got[1] = NoErr
                   /\ sent[2].type = render(call.arg.type)
                   /\ IF call.found = <<>>
                      THEN /\ sent[2].k = "vertexCreate"
                           /\ sent[2].sets = Assignments(data, DOMAIN data)
                           /\ "id" \in DOMAIN data
                      ELSE /\ sent[2].k = "update"
                           /\ sent[2].id = call.found[1].id
                           /\ sent[2].sets =
                                Assignments(data, DOMAIN data \ {"id"})
                   /\ SameKey(call.prev, class, IdOf(data))
                        => sent[2].k = "update"

\* two successive successful saves of one (type, id): CREATE VERTEX, UPDATE
C9_Witness ==
    \E c \in Callers :
        /\ calls[c].op = "saveNode" /\ Done(c) /\ calls[c].err = NoErr
        /\ Len(calls[c].sent) = 2
        /\ calls[c].sent[2].k = "update"
        /\ SameKey(calls[c].prev, LookupClass(calls[c].arg.type),
                   IdOf(calls[c].arg.data))
        /\ calls[c].prev[1].k = "vertexCreate"

\* the record a by-id lookup delivers right after a successful save of the
\* same (type, id) carries the id and the fields of the saved data
Saved(r, data) == \A f \in DOMAIN data : r[f] = data[f]

\* C10: a successful by-id lookup under type T (getNode, or find with id
\* and type) that follows a successful saveNode of (T, d) delivers a record,
\* and what it delivers has id d.id and the other fields of d; this holds
\* after a create and after an update (a further save of the same (T, id)
\* with changed fields), and the further save writes an UPDATE, so it adds
\* no second record.
C10_RoundTrip ==
    \A c \in Callers :
        LET call == calls[c]
            class == LookupClass(call.arg.type)
        IN
        /\ (/\ \/ call.op = "getNode"
               \/ call.op = "find" /\ call.arg.type # Undefined
            /\ Done(c) /\ call.err = NoErr
            /\ SameKey(call.prev, class, call.arg.id))
            => /\ call.val # <<>>
               /\ call.op = "getNode" => Len(call.val) = 1
               /\ \A i \in 1..Len(call.val) :
                    Saved(call.val[i], call.prev[1].data)
        /\ (/\ call.op = "saveNode" /\ Done(c) /\ call.err = NoErr
            /\ SameKey(call.prev, class, IdOf(call.arg.data)))
            => /\ Len(call.sent) = 2
               /\ call.sent[2].k = "update"
               /\ call.found # <<>>
               /\ \A i \in 1..Len(call.found) :
                    Saved(call.found[i], call.prev[1].data)

\* getNode delivers the record of a save that updated an existing record
C10_Witness ==
    \E c \in Callers :
        /\ calls[c].op = "getNode" /\ Done(c) /\ calls[c].err = NoErr
        /\ SameKey(calls[c].prev, LookupClass(calls[c].arg.type),
                   calls[c].arg.id)
        /\ calls[c].prev[1].k = "update"
        /\ Len(calls[c].val) = 1
        /\ Saved(calls[c].val[1], calls[c].prev[1].data)

\* the edges a select-edge lookup for (type, source, target) matches
EdgesFound(type, source, target) ==
    SelectSeq(records, LAMBDA r :
        MatchesEdge(r, render(type), render(source.id), render(target.id)))

\* C11: saveEdge sends one select-edge lookup, which is the lookup for
\* (entity.type, source, target) whatever entity.data holds, and at most
\* one write after it; the write is an UPDATE exactly if the lookup
\* delivered an edge (which it does exactly if the database holds a matching
\* edge), otherwise a CREATE EDGE.
C11_EdgeLookupKey ==
    \A c \in Callers :
        calls[c].op = "saveEdge" =>
            LET call == calls[c]
                sent == call.sent
                type == EdgeTypeOf(call.arg.type)
            IN
            /\ Len(sent) <= 2
            /\ Len(sent) >= 1
                => sent[1] = templates_selectEdge(type, call.arg.source,
                                                  call.arg.target)
            /\ call.pc = "write"
                => call.found = First(EdgesFound(type, call.arg.source,
                                                 call.arg.target))
            /\ Len(sent) = 2
                => /\ call.got[1] = NoErr
                   /\ sent[2].k = IF call.found # <<>> THEN "update"
                                  ELSE "edgeCreate"

\* an entity without an id in its data updates the edge the lookup found
C11_Witness ==
    \E c \in Callers :
        /\ calls[c].op = "saveEdge" /\ Done(c) /\ calls[c].err = NoErr
        /\ "id" \notin DOMAIN calls[c].arg.data
        /\ Len(calls[c].sent) = 2
        /\ calls[c].sent[2].k = "update"
        /\ calls[c].found # <<>>

\* C12: find with an id and no type on a connected graph probes the base
\* vertex class first.  If that probe fails or delivers records, the
\* callback receives that outcome and nothing more is sent; only after a
\* vertex probe that succeeded with an empty result is the base edge class
\* probed, and the outcome of that probe is what the callback receives.
C12_VertexThenEdge ==
    \A c \in Callers :
        (calls[c].op = "find" /\ calls[c].arg.id # Undefined
            /\ calls[c].arg.type = Undefined /\ calls[c].db) =>
            LET call == calls[c]
                sent == call.sent
                got == call.got
                id == call.arg.id
                vertices == SelectFrom(records, BaseVertex, id)
                edges == SelectFrom(records, BaseEdge, id)
            IN
            /\ Len(sent) \in {1, 2}
            /\ sent[1] = templates_selectById(BaseVertex, id)
            /\ Len(sent) = 2
                => /\ got[1] = NoErr
                   /\ vertices = <<>>
                   /\ sent[2] = templates_selectById(BaseEdge, id)
            /\ (Len(got) >= 1 /\ (got[1] # NoErr \/ vertices # <<>>))
                => /\ Done(c)
                   /\ Len(sent) = 1
                   /\ call.err = got[1]
                   /\ call.err = NoErr => call.val = vertices
            /\ (Done(c) /\ Len(sent) = 2)
                => /\ call.err = got[2]
                   /\ call.err = NoErr => call.val = edges

\* no vertex has the id, the edge probe delivers the edge that has it
C12_Witness ==
    \E c \in Callers :
        /\ calls[c].op = "find" /\ Done(c) /\ calls[c].err = NoErr
        /\ calls[c].arg.type = Undefined
        /\ Kinds(calls[c].sent) = <<"selectById", "selectById">>
        /\ calls[c].sent[2].type = BaseEdge
        /\ Len(calls[c].val) = 1
        /\ calls[c].val[1].id = calls[c].arg.id
        /\ calls[c].val[1].outV # Undefined

\* the commands an activation hands to commands.series, and the number of
\* backend calls it makes before them
SeriesOf(call) ==
    IF variant = "part_002"
    THEN <<CreateClass(call.arg.type,
                       IF call.op = "activateNodeType" THEN BaseVertex
                       ELSE BaseEdge),
           CreateProperty(call.arg.type), CreateIndex(call.arg.type)>>
    ELSE <<CreateProperty(call.arg.type), CreateIndex(call.arg.type)>>
SeriesOffset == IF variant = "part_002" THEN 0 ELSE 1

\* C13: commands.series sends its commands one at a time in list order,
\* command k+1 only after command k was answered without error; the first
\* command that fails is the last one sent and its error is what the
\* callback receives; the callback receives success once the last command
\* has succeeded, and not before.
C13_SeriesInOrder ==
    \A c \in Callers :
        (calls[c].op \in Activations /\ Len(calls[c].sent) > SeriesOffset) =>
            LET call == calls[c]
                sent == call.sent
                got == call.got
                list == SeriesOf(call)
                off == SeriesOffset
            IN
            /\ Len(sent) <= off + Len(list)
            /\ Len(got) \in {Len(sent) - 1, Len(sent)}
            /\ \A i \in (off + 1)..Len(sent) :
                /\ sent[i] = list[i - off]
                /\ i > off + 1 => got[i - 1] = NoErr
            /\ \A i \in (off + 1)..Len(got) :
                got[i] # NoErr
                    => /\ Len(sent) = i
                       /\ Done(c)
                       /\ call.err = got[i]
            /\ Done(c) <=> Len(got) = Len(sent)
                            /\ \/ got[Len(got)] # NoErr
                               \/ Len(sent) = off + Len(list)
            /\ (Done(c) /\ got[Len(got)] = NoErr) => call.err = NoErr

\* the first command of a series of two fails: the second is never sent
C13_Witness ==
    \E c \in Callers :
        /\ calls[c].op \in Activations /\ Done(c)
        /\ Len(calls[c].sent) = SeriesOffset + 1
        /\ Len(SeriesOf(calls[c])) >= 2
        /\ calls[c].got[SeriesOffset + 1] = BackendError
        /\ calls[c].err = BackendError

\* the first error among the answers, in the order of their arrival
FirstError(got) ==
    IF \E i \in 1..Len(got) : got[i] # NoErr
    THEN got[CHOOSE i \in 1..Len(got) :
                /\ got[i] # NoErr
                /\ \A j \in 1..(i - 1) : got[j] = NoErr]
    ELSE NoErr

\* C14: commands.parallel sends every command before any is answered, and
\* in every order of the answers its callback is invoked exactly once: at
\* the first error (also while other commands are still unanswered or have
\* succeeded) with that error, otherwise with success when the last command
\* has been answered.
C14_ParallelOnce ==
    \A c \in Callers :
        calls[c].op = "parallel" =>
            LET call == calls[c]
                got == call.got
            IN
            /\ call.sent \in ParallelLists
            /\ Cardinality(call.open) = Len(call.sent) - Len(got)
            /\ call.cbs <= 1
            /\ call.cbs = 1 <=> \/ FirstError(got) # NoErr
                                \/ Len(got) = Len(call.sent)
            /\ call.cbs = 1 => call.err = FirstError(got)
            /\ Done(c) <=> call.open = {}

\* the callback has received the error of one command while another is
\* still unanswered
C14_Witness ==
    \E c \in Callers :
        /\ calls[c].op = "parallel"
        /\ calls[c].open # {}
        /\ calls[c].got = <<BackendError>>
        /\ calls[c].cbs = 1
        /\ calls[c].err = BackendError

\* saveNode of caller c has sent a CREATE VERTEX for (type, id)
Creates(c, type, id) ==
    /\ calls[c].op = "saveNode"
    /\ Len(calls[c].sent) = 2
    /\ calls[c].sent[2].k = "vertexCreate"
    /\ calls[c].sent[2].type = type
    /\ IdOf(calls[c].arg.data) = id

\* C15: with two callers saving concurrently, a class that has its unique
\* id index never holds two records with one id; when both savers have
\* sent a create for the same (type, id) and the backend has answered both
\* (no other failure), exactly one of the creates was rejected by the index,
\* the callback of that saver has received the conflict error and the other
\* has succeeded; a save never sends more than its lookup and one write.
C15_UniqueUnderRace ==
    /\ \A t \in UserClasses : classes[t] = "index" => ~Duplicates(records, t)
    /\ \A c \in Callers : calls[c].op = "saveNode" => Len(calls[c].sent) <= 2
    /\ \A c1, c2 \in Callers : \A t \in UserClasses : \A i \in Ids :
        (/\ c1 # c2
         /\ classes[t] = "index"
         /\ Creates(c1, t, i) /\ Creates(c2, t, i)
         /\ Len(calls[c1].got) = 2 /\ Len(calls[c2].got) = 2
         /\ calls[c1].got[2] # BackendError
         /\ calls[c2].got[2] # BackendError)
            => /\ Done(c1) /\ Done(c2)
               /\ calls[c1].err = calls[c1].got[2]
               /\ calls[c2].err = calls[c2].got[2]
               /\ {calls[c1].err, calls[c2].err} = {NoErr, ConflictError}

\* both savers found nothing and sent a create; one was rejected
C15_Witness ==
    \E c1, c2 \in Callers : \E t \in UserClasses : \E i \in Ids :
        /\ c1 # c2
        /\ classes[t] = "index"
        /\ Creates(c1, t, i) /\ Creates(c2, t, i)
        /\ Done(c1) /\ calls[c1].err = NoErr
        /\ Done(c2) /\ calls[c2].err = ConflictError
        /\ Len(SelectFrom(records, t, i)) = 1

\* C16: on a connected graph, saveNode without node.data and saveEdge
\* without entity.data complete with the invalid-argument error and send
\* nothing; saveNode with data and no type names the base vertex class in
\* its lookup and in its write.  (Fails: part_001 gives node.type no default,
\* its write names no class.)
C16_SaveArguments ==
    \A c \in Callers :
        LET call == calls[c] IN
        /\ (call.op = "saveNode" /\ call.db /\ ~call.arg.hasData)
            => /\ Done(c)
               /\ call.err = NodeRequired
               /\ call.sent = <<>>
        /\ (call.op = "saveEdge" /\ call.db /\ ~call.arg.hasData)
            => /\ Done(c)
               /\ call.err = EntityRequired
               /\ call.sent = <<>>
        /\ (call.op = "saveNode" /\ call.arg.hasData
                /\ call.arg.type \in {Undefined, BaseVertex})
            => \A i \in 1..Len(call.sent) : call.sent[i].type = BaseVertex

\* C17: when the lookup of a saveNode or saveEdge is answered with an error,
\* the caller's callback receives that error and no write is sent.
\* (Fails: the lookup callback of saveNode in index.js reads results.length
\* before it looks at err and throws; the callback is never invoked.)
C17_LookupErrorReported ==
    \A c \in Callers :
        (calls[c].op \in {"saveNode", "saveEdge"}
            /\ Len(calls[c].got) >= 1 /\ calls[c].got[1] # NoErr)
            => /\ Done(c)
               /\ calls[c].err = calls[c].got[1]
               /\ Len(calls[c].sent) = 1

\* C18: in an activation whose class creation succeeded, CREATE PROPERTY
\* <type>.id is sent next and CREATE INDEX <type>.id after it, the index
\* only once the property command has succeeded; if one of the two fails,
\* the caller's callback receives that error, nothing is sent after the
\* failed command and the class has no unique index.
C18_PropertyThenIndex ==
    \A c \in Callers :
        (calls[c].op \in Activations /\ Len(calls[c].got) >= 1
            /\ calls[c].got[1] = NoErr) =>
            LET call == calls[c]
                sent == call.sent
                got == call.got
                type == call.arg.type
            IN
            /\ Len(sent) \in {2, 3}
            /\ sent[1].k = "createClass"
            /\ sent[2] = CreateProperty(type)
            /\ Len(sent) = 3
                => /\ Len(got) >= 2 /\ got[2] = NoErr
                   /\ sent[3] = CreateIndex(type)
            /\ \A i \in 2..Len(got) :
                got[i] # NoErr
                    => /\ Done(c)
                       /\ call.err = got[i]
                       /\ Len(sent) = i
                       /\ classes[type] # "index"
            /\ (Len(got) = 3 /\ got[3] = NoErr)
                => /\ Done(c)
                   /\ call.err = NoErr
                   /\ classes[type] = "index"

\* the class and its property were created, the index command failed
C18_Witness ==
    \E c \in Callers :
        /\ calls[c].op \in Activations /\ Done(c)
        /\ calls[c].got = <<NoErr, NoErr, BackendError>>
        /\ calls[c].err = BackendError
        /\ classes[calls[c].arg.type] = "prop"

\* the edges of a class that lead from source to target
EdgesBetween(type, source, target) ==
    SelectSeq(records, LAMBDA r :
        /\ IsA(r.class, type)
        /\ r.outV = source.id /\ r.inV = target.id)

\* C19: a successful saveEdge that follows a successful saveEdge of the
\* same caller with the same source, target and entity.type finds the edge
\* the first one created and sends an UPDATE; afterwards one edge of that
\* type leads from source to target and it carries the data of the second
\* call, with or without an id in the data.  (Fails: the lookup matches
\* in.id against the source and out.id against the target, the reverse of
\* what CREATE EDGE ... FROM source TO target stores, so the second call
\* creates a second edge.)
C19_EdgeUpsert ==
    \A c \in Callers :
        LET call == calls[c]
            type == EdgeTypeOf(call.arg.type)
        IN
        (/\ call.op = "saveEdge" /\ Done(c) /\ call.err = NoErr
         /\ call.prev # <<>>
         /\ call.prev[1].op = "saveEdge"
         /\ call.prev[1].k = "edgeCreate"
         /\ call.prev[1].type = call.arg.type
         /\ call.prev[1].source = call.arg.source
         /\ call.prev[1].target = call.arg.target)
            => /\ call.found # <<>>
               /\ call.sent[2].k = "update"
               /\ Len(EdgesBetween(type, call.arg.source,
                                   call.arg.target)) = 1
               /\ \A f \in DOMAIN call.arg.data \ {"id"} :
                    EdgesBetween(type, call.arg.source,
                                 call.arg.target)[1][f] = call.arg.data[f]

\* C20: a step changes the connection handle only if it is a step of a
\* connect that sets it or a step of a close that clears it; the steps of
\* find, getNode, getEdge, saveNode, saveEdge, the activations and the
\* command dispatchers leave it as it is.
C20_HandleFrame ==
    [][graphDb' # graphDb =>
        \E c \in Callers :
            /\ calls'[c] # calls[c]
            /\ \/ graphDb' /\ calls'[c].op = "connect"
               \/ ~graphDb' /\ calls'[c].op = "close"]_vars

\* a save has run to its end on a connected graph and the handle is set
C20_Witness ==
    \E c \in Callers :
        /\ calls[c].op \in {"saveNode", "saveEdge"} /\ Done(c)
        /\ calls[c].db
        /\ Len(calls[c].sent) = 2
        /\ graphDb

\* C21: no step changes definition.active from true to false, and a step
\* that changes the flag of a definition is a step of an activation of
\* that definition; close and connect leave the flags as they are.
C21_ActiveMonotone ==
    [][\A t \in UserClasses :
        /\ active[t] => active'[t]
        /\ active'[t] # active[t] =>
            \E c \in Callers :
                /\ calls'[c] # calls[c]
                /\ calls'[c].op \in Activations
                /\ calls'[c].arg.type = t]_vars

\* a definition was marked active and the graph was closed afterwards
C21_Witness ==
    \E t \in UserClasses : \E c \in Callers :
        /\ active[t]
        /\ calls[c].op = "close" /\ Done(c)
        /\ calls[c].db
        /\ ~graphDb

\* how many of the backend calls sent are of one of the kinds ks
Count(sent, ks) == Cardinality({i \in 1..Len(sent) : sent[i].k \in ks})

\* C22: no operation sends a backend call again: a connect sends at most
\* one server connect, one database create and two database opens, a save
\* at most one lookup and one write, a find at most two lookups, an
\* activation at most one class creation, one CREATE PROPERTY and one
\* CREATE INDEX; the only call an operation sends twice is the database
\* open of connect, the second time after the create.
C22_NoRetry ==
    \A c \in Callers :
        LET call == calls[c]
            sent == call.sent
        IN
        /\ call.op = "connect"
            => /\ Count(sent, {"server.connect"}) <= 1
               /\ Count(sent, {"db.create"}) <= 1
               /\ Count(sent, {"db.open"}) <= 2
               /\ Count(sent, {"dbExist"}) <= 1
        /\ call.op \in {"saveNode", "saveEdge"}
            => /\ Count(sent, {"selectById", "selectEdge"}) <= 1
               /\ Count(sent, {"update", "vertexCreate", "edgeCreate"}) <= 1
               /\ Len(sent) <= 2
        /\ call.op = "find"
            => /\ Count(sent, {"selectById"}) <= 2
               /\ Len(sent) <= 2
        /\ call.op \in Activations
            => /\ Count(sent, {"createClass"}) <= 1
               /\ Count(sent, {"createProperty"}) <= 1
               /\ Count(sent, {"createIndex"}) <= 1
               /\ Len(sent) <= 3
        /\ call.op \in {"getNode", "getEdge", "close"} => Len(sent) <= 1
        /\ \A i, j \in 1..Len(sent) :
            (i < j /\ sent[i] = sent[j])
                => /\ call.op = "connect"
                   /\ sent[i].k = "db.open"
                   /\ sent[j - 1].k = "db.create"

\* a connect whose second open failed as well: nothing more was sent
C22_Witness ==
    \E c \in Callers :
        /\ calls[c].op = "connect" /\ Done(c)
        /\ Kinds(calls[c].sent) =
                <<"server.connect", "db.open", "db.create", "db.open">>
        /\ calls[c].got[4] # NoErr
        /\ calls[c].err = calls[c].got[4]

\* an activation of t has created the class and is still running its
\* CREATE PROPERTY / CREATE INDEX commands
Completing(t) ==
    \E c \in Callers :
        /\ calls[c].op \in Activations /\ calls[c].arg.type = t
        /\ calls[c].pc = "series"
        /\ Len(calls[c].got) >= 1 /\ calls[c].got[1] = NoErr

\* the class of t exists without its unique index and no activation is
\* about to create it: an activation failed after the class was created
Stranded(t) == classes[t] \in {"class", "prop"} /\ ~Completing(t)

\* C23: once an activation has failed between the creation of the class and
\* the creation of its index, the class never gets the index, and every
\* later activation of the definition sends the class creation only,
\* reports success and leaves definition.active true.  (Fails: in part_002
\* the later activation reports the error of CREATE CLASS and does not mark
\* the definition active, see C6.)
C23_StrandedForever ==
    [][\A t \in UserClasses :
        /\ Stranded(t) => Stranded(t)'
        /\ \A c \in Callers :
            (/\ Stranded(t)'
             /\ calls'[c].op \in Activations /\ calls'[c].arg.type = t
             /\ calls'[c].pc = "done"
             /\ Len(calls'[c].got) >= 1 /\ calls'[c].got[1] # NoErr)
                => /\ calls'[c].err = NoErr
                   /\ active'[t]
                   /\ Len(calls'[c].sent) = 1]_vars

\* the operation of caller c waits for the answer to a backend call
Awaiting(c) == calls[c].pc \notin {"idle", "done", "thrown"}

Opening(d) ==
    /\ calls[d].op = "connect"
    /\ calls[d].pc \in {"db.open", "db.create", "db.reopen", "dbExist"}
    /\ ~calls[d].db

\* C25: while a connect that found no handle waits for the database to be
\* opened and no other caller has connected, a data operation another caller
\* starts reports errors.NOT_CONNECTED and sends nothing.  (Fails: index.js
\* and part_001 assign graph._db before db.open is called, so the operation
\* finds the handle and sends its command.  The find without an id, which
\* never looks at the handle, is the subject of C1 and is left out here.)
C25_NoHandleWhileConnecting ==
    [][\A c, d \in Callers :
        /\ c # d
        /\ Opening(d)
        /\ database # "open"
        /\ calls[c].pc \in {"idle", "done"}
        /\ calls[c].op # "connect"
        /\ calls'[c] # calls[c]
        /\ calls'[c].op \in DataOps
        /\ ~(calls'[c].op = "find" /\ calls'[c].arg.id = Undefined)
        => /\ calls'[c].pc = "done"
           /\ calls'[c].err = errors_NOT_CONNECTED
           /\ calls'[c].sent = <<>>]_vars

\* C26: when the lookup of a saveNode or saveEdge is answered after a close
\* has cleared the handle, the save sends no create or update and its
\* callback receives errors.NOT_CONNECTED; no operation in flight sends a
\* further command once the handle is cleared.  (Fails: index.js and
\* part_001 send the write on the handle they read at entry; part_002 reads
\* the cleared handle again and throws.)
C26_NoWriteAfterClose ==
    [][\A c \in Callers :
        /\ ~graphDb
        /\ calls[c].db
        /\ Awaiting(c)
        /\ calls[c].op \in DataOps
        /\ calls'[c] # calls[c]
        => /\ Len(calls'[c].sent) = Len(calls[c].sent)
           /\ calls[c].pc \in {"saveNode.lookup", "saveEdge.lookup"}
                => /\ calls'[c].pc = "done"
                   /\ calls'[c].err = errors_NOT_CONNECTED]_vars

====
